---- MODULE Spec2Model ----
(***************************************************************************)
(* The syz-fuzzer worker (syz-fuzzer/fuzzer.go): bootstrap, the Pollster   *)
(* loop of main(), addInput, and the shared corpus / signal state.  The    *)
(* proc loops, the work queue and the gate live in files that are not part *)
(* of the sources at hand; they are modelled from the design document and  *)
(* only as far as they touch the state main() and addInput() share.        *)
(***************************************************************************)
EXTENDS Integers, Sequences, FiniteSets, TLC

(* ------------------------------ bounds -------------------------------- *)
\* coverage tokens are 1..MaxToken
MaxToken == 1
\* program byte strings are 0..MaxProg; 0 is a string Deserialize rejects
MaxProg == 1
\* values of a statistics counter are 0..MaxStat
MaxStat == 2
\* corpus length up to which the direct append is explored: room for every
\* program and one duplicate
MaxCorpus == MaxProg + 1

(* ------------------------- program constants -------------------------- *)
\* flagProcs, "number of parallel test processes"
NumProcs == 1
\* candidates the work queue holds before the manager stops sending more:
\* the low watermark of wantCandidates()
MaxQueue == NumProcs
\* time.NewTicker(3 * time.Second)
TickPeriod == 3
\* time.Since(lastPoll) > 10*time.Second
T_idle == 10

Tokens == 1..MaxToken
ProgBytes == 0..MaxProg
Procs == 1..NumProcs

\* lock / thread identities: the main thread (bootstrap + Pollster) and procs
Free == 0
Main == -1

VARIABLES
  pc,            \* position of the main thread in main() / addInput()
  ret,           \* where the running addInput returns to: "boot" (l.140) or
                 \* "poll" (l.321); "none" while no call of addInput runs
  flagLeak,      \* *flagLeak
  flagSignal,    \* config.Flags&ipc.FlagSignal != 0, from ipc.DefaultConfig()
  noCover,       \* global noCover
  needCheck,     \* r.NeedCheck of the Connect reply
  rInputs,       \* the reply in hand has inputs: len(r.NewInputs) != 0
  rCandidates,   \* the reply in hand has candidates: len(r.Candidates) != 0
  inp,           \* argument of the running addInput call
  corpus,        \* global corpus: sequence of deserialized programs
  corpusHashes,  \* global corpusHashes
  corpusSignal,  \* global corpusSignal
  maxSignal,     \* global maxSignal
  newSignal,     \* global newSignal
  corpusMu,      \* holder of corpusMu (write lock)
  signalMu,      \* holder of signalMu (write lock)
  allTriaged,    \* global allTriaged (0 / 1)
  needPoll,      \* number of pulses buffered in the needPoll channel (cap 1)
  queue,         \* candidate sub-queue of fuzzer.workQueue
  started,       \* number of procs whose loop has been started
  tickets,       \* procs holding a gate ticket (executing a program)
  gateStop,      \* the gate is in its barrier state
  scanReport,    \* kmemleakScan(true) in progress (gate's leak callback)
  scanBaseline,  \* kmemleakScan(false) in progress (Pollster)
  poll,          \* local poll of the Pollster loop
  needCandidates,\* local needCandidates
  since,         \* time.Since(lastPoll) in seconds, saturating above T_idle
  tickPending,   \* a tick is buffered in the ticker channel
  aMaxSignal,    \* a.MaxSignal of the PollArgs being built / sent
  published,     \* history: tokens ever added to newSignal
  seen,          \* history: program bytes addInput has run on to its end
  reported,      \* history: token -> number of Poll payloads carrying it (cap 2)
  stats,         \* fuzzer.stats[k], for one (any) activity kind k
  aStats,        \* a.Stats[name] of the PollArgs being built, for kind k
  statOwed,      \* history: increments of stats[k] no Poll payload carries yet
  fatal,         \* history: what ended the worker ("" while it runs)
  nBaseline      \* history: number of kmemleakScan(false) calls (cap 2)

vars == << pc, ret, flagLeak, flagSignal, noCover, needCheck, rInputs,
           rCandidates, inp, corpus, corpusHashes, corpusSignal,
           maxSignal, newSignal, corpusMu, signalMu, allTriaged, needPoll,
           queue, started, tickets, gateStop, scanReport, scanBaseline, poll,
           needCandidates, since, tickPending, aMaxSignal, published,
           seen, reported, stats, aStats, statOwed, fatal,
           nBaseline >>

\* groups used by UNCHANGED
configVars == << flagLeak, flagSignal, needCheck >>
corpusVars == << corpus, corpusHashes >>
signalVars == << corpusSignal, maxSignal, newSignal, published >>
lockVars   == << corpusMu, signalMu >>
replyVars  == << rInputs, rCandidates >>
gateVars   == << tickets, gateStop, scanReport >>
timeVars   == << since, tickPending >>
pollVars   == << poll, needCandidates, aMaxSignal, reported >>
statVars   == << stats, aStats, statOwed >>

(* ------------------------- pure functions ----------------------------- *)
\* hash.Hash(inp.Prog): a content hash of the program bytes (SHA1 in the
\* library); here an injective scramble of the byte string into another range
Hash(b) == 100 + ((b * 7) % 13)

\* target.Deserialize(b): the parsed program, or an error for string 0
DeserializeOk(b) == b # 0
Deserialize(b) == [text |-> b]

\* the hash of a corpus entry's serialized form
ProgHash(p) == Hash(p.text)

\* cover.SignalDiff(base, sig): tokens of sig that base lacks
SignalDiff(base, sig) == { t \in sig : t \notin base }

\* cover.SignalAdd(base, diff)
SignalAdd(base, diff) == base \cup diff

NoInput == [Prog |-> 0, Signal |-> {}]
RpcInputs == [Prog : ProgBytes, Signal : SUBSET Tokens]

Candidates == [Prog : ProgBytes, Minimized : BOOLEAN]

\* fuzzer.workQueue.wantCandidates(): the candidate sub-queue is below the
\* low watermark of proc_count items
wantCandidates == Len(queue) < NumProcs

\* the worker process is alive (a panic / Fatalf ends every thread)
Alive == pc # "panic"

(* ------------------------------- Init --------------------------------- *)
Init ==
  /\ pc = "connect"
  /\ ret = "none"
  /\ flagLeak \in BOOLEAN
  /\ flagSignal \in BOOLEAN
  /\ noCover = FALSE
  /\ needCheck = FALSE
  /\ rInputs = FALSE
  /\ rCandidates = FALSE
  /\ inp = NoInput
  /\ corpus = << >>
  /\ corpusHashes = {}
  /\ corpusSignal = {}
  /\ maxSignal = {}
  /\ newSignal = {}
  /\ corpusMu = Free
  /\ signalMu = Free
  /\ allTriaged = 0
  /\ needPoll = 0
  /\ queue = << >>
  /\ started = 0
  /\ tickets = {}
  /\ gateStop = FALSE
  /\ scanReport = FALSE
  /\ scanBaseline = FALSE
  /\ poll = FALSE
  /\ needCandidates = FALSE
  /\ since = T_idle + 1
  /\ tickPending = FALSE
  /\ aMaxSignal = {}
  /\ published = {}
  /\ seen = {}
  /\ reported = [t \in Tokens |-> 0]
  /\ stats = 0
  /\ aStats = 0
  /\ statOwed = 0
  /\ fatal = ""
  /\ nBaseline = 0

(* --------------------------- bootstrap -------------------------------- *)
\* l.131-138: RpcCall(Manager.Connect) succeeds.  The reply's NeedCheck is
\* fixed here; its inputs, max signal and candidates are drawn when the
\* statements that read them are reached
ConnectOk ==
  /\ pc = "connect"
  /\ \E nc \in BOOLEAN : needCheck' = nc
  /\ rInputs' = FALSE
  /\ rCandidates' = FALSE
  /\ pc' = "seed_inputs"
  /\ UNCHANGED << seen, statVars, fatal, nBaseline, ret, flagLeak, flagSignal,
                  noCover, inp, corpusVars, signalVars, lockVars, allTriaged,
                  needPoll, queue, started, gateVars, scanBaseline, pollVars,
                  timeVars >>

\* l.134-136: RpcCall(Manager.Connect) fails: panic
ConnectErr ==
  /\ pc = "connect"
  /\ pc' = "panic"
  /\ fatal' = "Connect"
  /\ UNCHANGED << seen, statVars, nBaseline, ret, configVars, noCover,
                  replyVars, inp, corpusVars, signalVars, lockVars, allTriaged,
                  needPoll, queue, started, gateVars, scanBaseline, pollVars,
                  timeVars >>

\* l.139-140: r.Inputs has a further input; addInput is entered and its
\* first statement takes corpusMu (l.387)
SeedInputsNext ==
  /\ pc = "seed_inputs"
  /\ corpusMu = Free
  /\ \E i \in RpcInputs : inp' = i
  /\ corpusMu' = Main
  /\ rInputs' = TRUE
  /\ ret' = "boot"
  /\ pc' = "addInput_signalMu"
  /\ UNCHANGED << seen, statVars, fatal, nBaseline, configVars, noCover,
                  rCandidates, corpusVars, signalVars, signalMu, allTriaged,
                  needPoll, queue, started, gateVars, scanBaseline, pollVars,
                  timeVars >>

\* l.139-141: r.Inputs is exhausted
SeedInputsEnd ==
  /\ pc = "seed_inputs"
  /\ pc' = "seed_max"
  /\ UNCHANGED << seen, statVars, fatal, nBaseline, ret, configVars, noCover,
                  replyVars, inp, corpusVars, signalVars, lockVars, allTriaged,
                  needPoll, queue, started, gateVars, scanBaseline, pollVars,
                  timeVars >>

\* l.389: addInput takes signalMu while holding corpusMu
AddInputLockSignal ==
  /\ pc = "addInput_signalMu"
  /\ signalMu = Free
  /\ signalMu' = Main
  /\ pc' = "addInput_body"
  /\ UNCHANGED << seen, statVars, fatal, nBaseline, ret, configVars, noCover,
                  replyVars, inp, corpusVars, signalVars, corpusMu, allTriaged,
                  needPoll, queue, started, gateVars, scanBaseline, pollVars,
                  timeVars >>

\* a variant of addInput that appends without the hash test of l.400
AddInputCorpusAlways(c, hs, i) == Append(c, Deserialize(i.Prog))

\* l.399-403: the corpus after the hash test of addInput
AddInputCorpus(c, hs, i) ==
  IF Hash(i.Prog) \notin hs THEN Append(c, Deserialize(i.Prog)) ELSE c

\* a variant of addInput without l.402: the hash is never recorded
AddInputHashesForgets(hs, i) == hs

\* l.399-403: the hash set after the hash test of addInput
AddInputHashes(hs, i) ==
  IF Hash(i.Prog) \notin hs THEN hs \cup {Hash(i.Prog)} ELSE hs

\* l.404: the tokens of the input's signal that maxSignal lacks
AddInputDiff(ms, i) == SignalDiff(ms, i.Signal)

\* l.404-405: corpusSignal after addInput
AddInputCorpusSignal(cs, ms, i) == SignalAdd(cs, AddInputDiff(ms, i))

\* a variant of addInput without l.406: the diff never reaches maxSignal
AddInputMaxSignalDropped(ms, i) == ms

\* l.404-406: maxSignal after addInput
AddInputMaxSignal(ms, i) == SignalAdd(ms, AddInputDiff(ms, i))

\* l.392-398: addInput panics (coverage disabled, or Deserialize fails)
AddInputPanics(nc, i) == nc \/ ~DeserializeOk(i.Prog)

\* l.392-408 and the deferred unlocks: the body of addInput
AddInputBody ==
  /\ pc = "addInput_body"
  /\ IF AddInputPanics(noCover, inp)
       THEN /\ pc' = "panic"
            /\ fatal' = "addInput"
            /\ UNCHANGED << corpusVars, signalVars, seen >>
       ELSE /\ corpus' = AddInputCorpus(corpus, corpusHashes, inp)
            /\ corpusHashes' = AddInputHashes(corpusHashes, inp)
            /\ corpusSignal' = AddInputCorpusSignal(corpusSignal, maxSignal, inp)
            /\ maxSignal' = AddInputMaxSignal(maxSignal, inp)
            /\ UNCHANGED << newSignal, published >>
            /\ seen' = seen \cup {inp.Prog}
            /\ UNCHANGED fatal
            /\ pc' = IF ret = "boot" THEN "seed_inputs" ELSE "inputs"
  /\ signalMu' = Free
  /\ corpusMu' = Free
  /\ inp' = NoInput
  /\ ret' = "none"
  /\ UNCHANGED << statVars, nBaseline, configVars, noCover, replyVars, allTriaged,
                  needPoll, queue, started, gateVars, scanBaseline, pollVars,
                  timeVars >>

\* l.142-144 / l.315-317: maxSignal after absorbing a reply's max signal s
AbsorbMax(ms, s) == ms \cup s

\* l.142-144: absorb r.MaxSignal of the Connect reply (no lock: no proc runs)
SeedMaxSignal ==
  /\ pc = "seed_max"
  /\ \E s \in SUBSET Tokens : maxSignal' = AbsorbMax(maxSignal, s)
  /\ pc' = "config"
  /\ UNCHANGED << seen, statVars, fatal, nBaseline, ret, configVars, noCover,
                  replyVars, inp, corpusVars, corpusSignal, newSignal,
                  published, lockVars, allTriaged, needPoll, queue, started,
                  gateVars, scanBaseline, pollVars, timeVars >>

\* l.163: noCover, from the flags ipc.DefaultConfig returned
NoCoverOf(fs) == ~fs

\* l.152-163: ipc.DefaultConfig and noCover
Config ==
  /\ pc = "config"
  /\ noCover' = NoCoverOf(flagSignal)
  /\ pc' = "check"
  /\ UNCHANGED << seen, statVars, fatal, nBaseline, ret, configVars, replyVars,
                  inp, corpusVars, signalVars, lockVars, allTriaged, needPoll,
                  queue, started, gateVars, scanBaseline, pollVars, timeVars >>

\* l.168: r.NeedCheck is false: no Check RPC
CheckSkip ==
  /\ pc = "check"
  /\ ~needCheck
  /\ pc' = "reconnect"
  /\ UNCHANGED << seen, statVars, fatal, nBaseline, ret, configVars,
                  noCover, replyVars, inp, corpusVars, signalVars, lockVars,
                  allTriaged, needPoll, queue, started, gateVars, scanBaseline,
                  pollVars, timeVars >>

\* l.168-199: r.NeedCheck is true and the Check RPC succeeds (NeedCheck is
\* not read again)
CheckOk ==
  /\ pc = "check"
  /\ needCheck
  /\ needCheck' = FALSE
  /\ pc' = "reconnect"
  /\ UNCHANGED << seen, statVars, fatal, nBaseline, ret, flagLeak, flagSignal,
                  noCover, replyVars, inp, corpusVars, signalVars, lockVars,
                  allTriaged, needPoll, queue, started, gateVars, scanBaseline,
                  pollVars, timeVars >>

\* l.196-198: the Check RPC fails: panic
CheckErr ==
  /\ pc = "check"
  /\ needCheck
  /\ pc' = "panic"
  /\ fatal' = "Check"
  /\ UNCHANGED << seen, statVars, nBaseline, ret, configVars, noCover,
                  replyVars, inp, corpusVars, signalVars, lockVars, allTriaged,
                  needPoll, queue, started, gateVars, scanBaseline, pollVars,
                  timeVars >>

\* l.205-230: NewRpcClient succeeds; kmemleakInit; needPoll is made and given
\* its first pulse; the Fuzzer (gate, work queue) is constructed
ReconnectOk ==
  /\ pc = "reconnect"
  /\ needPoll' = 1
  /\ pc' = "seed_candidates"
  /\ UNCHANGED << seen, statVars, fatal, nBaseline, ret, configVars, noCover,
                  replyVars, inp, corpusVars, signalVars, lockVars, allTriaged,
                  queue, started, gateVars, scanBaseline, pollVars, timeVars >>

\* l.205-206: NewRpcClient fails: panic
ReconnectErr ==
  /\ pc = "reconnect"
  /\ pc' = "panic"
  /\ fatal' = "Reconnect"
  /\ UNCHANGED << seen, statVars, nBaseline, ret, configVars, noCover,
                  replyVars, inp, corpusVars, signalVars, lockVars, allTriaged,
                  needPoll, queue, started, gateVars, scanBaseline, pollVars,
                  timeVars >>

\* the manager sends a further candidate only while the queue (the corpus,
\* when coverage is disabled) has room: this bounds the exploration
Room == IF noCover THEN Len(corpus) < MaxCorpus ELSE Len(queue) < MaxQueue

\* l.242 / l.333: the work queue after enqueue(&WorkCandidate{p, minimized})
Enqueue(q, c) == Append(q, [p |-> Deserialize(c.Prog), minimized |-> c.Minimized])

\* a variant of l.236 / l.327 that never takes the direct append
CandidateDirectNever(nc) == FALSE

\* l.236 / l.327: "if noCover": the candidate goes straight to the corpus
CandidateDirect(nc) == nc

\* l.232-244 / l.323-335: r.Candidates has a further candidate, at loopPc:
\* Deserialize, then take corpusMu for the direct append (noCover) or
\* enqueue a WorkCandidate
CandidateNext(loopPc, appendPc) ==
  /\ pc = loopPc
  /\ Room
  /\ rCandidates' = TRUE
  /\ \E c \in Candidates :
       IF ~DeserializeOk(c.Prog)
         THEN /\ pc' = "panic"
              /\ fatal' = "Deserialize"
              /\ UNCHANGED << inp, corpusMu, queue >>
         ELSE IF CandidateDirect(noCover)
           THEN /\ corpusMu = Free
                /\ corpusMu' = Main
                /\ inp' = [Prog |-> c.Prog, Signal |-> {}]
                /\ pc' = appendPc
                /\ UNCHANGED << queue, fatal >>
           ELSE /\ queue' = Enqueue(queue, c)
                /\ pc' = loopPc
                /\ UNCHANGED << inp, corpusMu, fatal >>
  /\ UNCHANGED << seen, statVars, nBaseline, ret, configVars, noCover,
                  rInputs, corpusVars, signalVars, signalMu, allTriaged,
                  needPoll, started, gateVars, scanBaseline, pollVars,
                  timeVars >>

\* l.239 / l.330: the corpus after the direct append of a candidate
DirectAppend(c, p) == Append(c, p)

\* l.238-240 / l.329-331: corpus = append(corpus, p) under corpusMu, unlock
CandidateAppend(loopPc, appendPc) ==
  /\ pc = appendPc
  /\ corpus' = DirectAppend(corpus, Deserialize(inp.Prog))
  /\ corpusMu' = Free
  /\ pc' = loopPc
  /\ inp' = NoInput
  /\ UNCHANGED << seen, statVars, fatal, nBaseline, ret, configVars, noCover,
                  replyVars, corpusHashes, signalVars, signalMu, allTriaged,
                  needPoll, queue, started, gateVars, scanBaseline, pollVars,
                  timeVars >>

\* l.232 / l.323: r.Candidates is exhausted
CandidateEnd(loopPc, donePc) ==
  /\ pc = loopPc
  /\ pc' = donePc
  /\ UNCHANGED << seen, statVars, fatal, nBaseline, ret, configVars, noCover,
                  replyVars, inp, corpusVars, signalVars, lockVars, allTriaged,
                  needPoll, queue, started, gateVars, scanBaseline, pollVars,
                  timeVars >>

\* l.232-244: the Connect candidates
SeedCandidatesNext == CandidateNext("seed_candidates", "seed_append")
SeedAppend == CandidateAppend("seed_candidates", "seed_append")
SeedCandidatesEnd == CandidateEnd("seed_candidates", "start_procs")

\* l.246-253: newProc and go proc.loop() for the next pid
StartProc ==
  /\ pc = "start_procs"
  /\ started < NumProcs
  /\ started' = started + 1
  /\ UNCHANGED << seen, statVars, fatal, nBaseline, pc, ret, configVars,
                  noCover, replyVars, inp, corpusVars, signalVars, lockVars,
                  allTriaged, needPoll, queue, gateVars, scanBaseline,
                  pollVars, timeVars >>

\* a variant of l.246-259 that enters the loop before every proc runs
EnterLoopEarly ==
  /\ pc = "start_procs"
  /\ rInputs' = FALSE
  /\ rCandidates' = FALSE
  /\ pc' = "select"
  /\ UNCHANGED << seen, statVars, fatal, nBaseline, ret, configVars, noCover,
                  inp, corpusVars, signalVars, lockVars, allTriaged, needPoll,
                  queue, started, gateVars, scanBaseline, pollVars, timeVars >>

\* l.255-259: every proc runs; the ticker is created and the Pollster loop
\* is entered (r of the Connect reply is dead from here on)
EnterLoop ==
  /\ pc = "start_procs"
  /\ started = NumProcs
  /\ rInputs' = FALSE
  /\ rCandidates' = FALSE
  /\ pc' = "select"
  /\ UNCHANGED << seen, statVars, fatal, nBaseline, ret, configVars, noCover,
                  inp, corpusVars, signalVars, lockVars, allTriaged, needPoll,
                  queue, started, gateVars, scanBaseline, pollVars, timeVars >>

(* ---------------------------- Pollster -------------------------------- *)
\* l.261-262: the select wakes on a tick
SelectTick ==
  /\ pc = "select"
  /\ tickPending
  /\ tickPending' = FALSE
  /\ poll' = FALSE
  /\ pc' = "decide"
  /\ UNCHANGED << seen, statVars, fatal, nBaseline, ret, configVars, noCover,
                  replyVars, inp, corpusVars, signalVars, lockVars, allTriaged,
                  needPoll, queue, started, gateVars, scanBaseline,
                  needCandidates, since, aMaxSignal, reported >>

\* l.261-264: the select wakes on the needPoll pulse
SelectPulse ==
  /\ pc = "select"
  /\ needPoll = 1
  /\ needPoll' = 0
  /\ poll' = TRUE
  /\ pc' = "decide"
  /\ UNCHANGED << seen, statVars, fatal, nBaseline, ret, configVars, noCover,
                  replyVars, inp, corpusVars, signalVars, lockVars, allTriaged,
                  queue, started, gateVars, scanBaseline, needCandidates,
                  timeVars, aMaxSignal, reported >>

\* a variant of l.271 without the rate limit: every wake is due
PollDueAlways(pl, el) == TRUE

\* a variant of l.271 without the time clause: only a pulse is due
PollDuePulseOnly(pl, el) == pl

\* l.271: is wantCandidates() read on this wake?  pl is poll, el the seconds
\* since lastPoll
PollDue(pl, el) == pl \/ el > T_idle

\* a variant of the decision without the continue of l.273-275
PollDecisionNoSkip(pl, el, want) == PollDue(pl, el)

\* l.271-276: does this wake send a Poll?  want is wantCandidates()
PollDecision(pl, el, want) ==
  IF PollDue(pl, el)
    THEN IF pl /\ ~want THEN FALSE ELSE TRUE
    ELSE FALSE

\* l.271-276: the decision of this wake; poll is dead after l.273 and is
\* cleared as l.260 does
Decide ==
  /\ pc = "decide"
  /\ needCandidates' = IF PollDue(poll, since) THEN wantCandidates
                                               ELSE needCandidates
  /\ pc' = IF PollDecision(poll, since, wantCandidates) THEN "drain"
                                                        ELSE "select"
  /\ poll' = FALSE
  /\ UNCHANGED << seen, statVars, fatal, nBaseline, ret, configVars, noCover,
                  replyVars, inp, corpusVars, signalVars, lockVars, allTriaged,
                  needPoll, queue, started, gateVars, scanBaseline, timeVars,
                  aMaxSignal, reported >>

\* a variant of the drain without l.282: signalMu is not taken
DrainLockSkipped ==
  /\ pc = "drain"
  /\ pc' = "drain_copy"
  /\ UNCHANGED << seen, statVars, fatal, nBaseline, ret, configVars, noCover,
                  replyVars, inp, corpusVars, signalVars, lockVars, allTriaged,
                  needPoll, queue, started, gateVars, scanBaseline, pollVars,
                  timeVars >>

\* l.282: signalMu.Lock() before the drain
DrainLock ==
  /\ pc = "drain"
  /\ signalMu = Free
  /\ signalMu' = Main
  /\ pc' = "drain_copy"
  /\ UNCHANGED << seen, statVars, fatal, nBaseline, ret, configVars, noCover,
                  replyVars, inp, corpusVars, signalVars, corpusMu, allTriaged,
                  needPoll, queue, started, gateVars, scanBaseline, pollVars,
                  timeVars >>

\* l.283-286: a.MaxSignal, filled from newSignal
DrainPayload(ns) == ns

\* l.283-286: copy newSignal into a.MaxSignal, under signalMu
DrainCopy ==
  /\ pc = "drain_copy"
  /\ aMaxSignal' = DrainPayload(newSignal)
  /\ reported' = [t \in Tokens |->
                    IF t \in DrainPayload(newSignal) /\ reported[t] < 2
                      THEN reported[t] + 1 ELSE reported[t]]
  /\ pc' = "drain_reset"
  /\ UNCHANGED << seen, statVars, fatal, nBaseline, ret, configVars, noCover,
                  replyVars, inp, corpusVars, signalVars, lockVars, allTriaged,
                  needPoll, queue, started, gateVars, scanBaseline, poll,
                  needCandidates, timeVars >>

\* l.287: newSignal after the reset
Drained(ns) == {}

\* a variant of the swap of l.294 that reads the counter and leaves it
StatSwapKeeps(v) == v

\* l.294: the counter after atomic.SwapUint64(&fuzzer.stats[stat], 0)
StatSwap(v) == 0

\* l.293-305: stat(k, name): the counter of activity kind k is swapped to
\* zero in one atomic step and the swapped value goes into a.Stats[name]
\* (the eight kinds are swapped one after the other by the same closure,
\* each counter on its own; k stands for any one of them)
StatDrain ==
  /\ aStats' = stats
  /\ stats' = StatSwap(stats)
  /\ statOwed' = statOwed - stats

\* l.287-305: reset newSignal, unlock, and fill a.Stats.  The swaps touch
\* only the counters, which no step of a proc reads, so they are taken in
\* the same step as the unlock
DrainReset ==
  /\ pc = "drain_reset"
  /\ newSignal' = Drained(newSignal)
  /\ signalMu' = Free
  /\ StatDrain
  /\ pc' = "call"
  /\ UNCHANGED << seen, fatal, nBaseline, ret, configVars, noCover,
                  replyVars, inp, corpusVars, corpusSignal, maxSignal,
                  published, corpusMu, allTriaged, needPoll, queue, started,
                  gateVars, scanBaseline, pollVars, timeVars >>

\* l.307-312: manager.Call(Manager.Poll) returns a reply, whose parts are
\* drawn when the statements that read them are reached
PollOk ==
  /\ pc = "call"
  /\ rInputs' = FALSE
  /\ rCandidates' = FALSE
  /\ aMaxSignal' = {}
  /\ aStats' = 0
  /\ needCandidates' = FALSE
  /\ pc' = "absorb"
  /\ UNCHANGED << seen, stats, statOwed, fatal, nBaseline, ret, configVars, noCover,
                  inp, corpusVars, signalVars, lockVars, allTriaged, needPoll,
                  queue, started, gateVars, scanBaseline, poll, timeVars,
                  reported >>

\* a variant of l.308-310 that notes the error and goes on with the loop
PollErrContinues ==
  /\ pc = "call"
  /\ pc' = "select"
  /\ fatal' = "Poll"
  /\ UNCHANGED << seen, statVars, nBaseline, ret, configVars, noCover,
                  replyVars, inp, corpusVars, signalVars, lockVars, allTriaged,
                  needPoll, queue, started, gateVars, scanBaseline, pollVars,
                  timeVars >>

\* l.308-310: manager.Call(Manager.Poll) fails: panic
PollErr ==
  /\ pc = "call"
  /\ pc' = "panic"
  /\ fatal' = "Poll"
  /\ UNCHANGED << seen, statVars, nBaseline, ret, configVars, noCover,
                  replyVars, inp, corpusVars, signalVars, lockVars, allTriaged,
                  needPoll, queue, started, gateVars, scanBaseline, pollVars,
                  timeVars >>

\* l.313: len(r.MaxSignal) == 0, nothing to absorb
AbsorbNone ==
  /\ pc = "absorb"
  /\ pc' = "inputs"
  /\ UNCHANGED << seen, statVars, fatal, nBaseline, ret, configVars, noCover,
                  replyVars, inp, corpusVars, signalVars, lockVars, allTriaged,
                  needPoll, queue, started, gateVars, scanBaseline, pollVars,
                  timeVars >>

\* l.313-314: len(r.MaxSignal) != 0: signalMu.Lock()
AbsorbLock ==
  /\ pc = "absorb"
  /\ signalMu = Free
  /\ signalMu' = Main
  /\ pc' = "absorb_body"
  /\ UNCHANGED << seen, statVars, fatal, nBaseline, ret, configVars, noCover,
                  replyVars, inp, corpusVars, signalVars, corpusMu, allTriaged,
                  needPoll, queue, started, gateVars, scanBaseline, pollVars,
                  timeVars >>

\* a variant of the absorb without the Unlock of l.318
AbsorbBodyNoUnlock ==
  /\ pc = "absorb_body"
  /\ \E s \in (SUBSET Tokens) \ {{}} : maxSignal' = AbsorbMax(maxSignal, s)
  /\ pc' = "inputs"
  /\ UNCHANGED << seen, statVars, fatal, nBaseline, ret, configVars, noCover,
                  replyVars, inp, corpusVars, corpusSignal, newSignal,
                  published, lockVars, allTriaged, needPoll, queue, started,
                  gateVars, scanBaseline, pollVars, timeVars >>

\* l.315-318: absorb the (non-empty) r.MaxSignal, unlock
AbsorbBody ==
  /\ pc = "absorb_body"
  /\ \E s \in (SUBSET Tokens) \ {{}} : maxSignal' = AbsorbMax(maxSignal, s)
  /\ signalMu' = Free
  /\ pc' = "inputs"
  /\ UNCHANGED << seen, statVars, fatal, nBaseline, ret, configVars, noCover,
                  replyVars, inp, corpusVars, corpusSignal, newSignal,
                  published, corpusMu, allTriaged, needPoll, queue, started,
                  gateVars, scanBaseline, pollVars, timeVars >>

\* l.320-321: r.NewInputs has a further input; addInput is entered
PollInputsNext ==
  /\ pc = "inputs"
  /\ corpusMu = Free
  /\ \E i \in RpcInputs : inp' = i
  /\ corpusMu' = Main
  /\ rInputs' = TRUE
  /\ ret' = "poll"
  /\ pc' = "addInput_signalMu"
  /\ UNCHANGED << seen, statVars, fatal, nBaseline, configVars, noCover,
                  rCandidates, corpusVars, signalVars, signalMu, allTriaged,
                  needPoll, queue, started, gateVars, scanBaseline, pollVars,
                  timeVars >>

\* l.320-322: r.NewInputs is exhausted
PollInputsEnd ==
  /\ pc = "inputs"
  /\ pc' = "candidates"
  /\ UNCHANGED << seen, statVars, fatal, nBaseline, ret, configVars, noCover,
                  replyVars, inp, corpusVars, signalVars, lockVars, allTriaged,
                  needPoll, queue, started, gateVars, scanBaseline, pollVars,
                  timeVars >>

\* l.323-335: the Poll candidates
PollCandidatesNext == CandidateNext("candidates", "append")
PollAppend == CandidateAppend("candidates", "append")
PollCandidatesEnd == CandidateEnd("candidates", "triaged")

\* a variant of l.342-344 that notes the timestamp after every poll
LastPollAlways(hasIn, hasCand, el) == 0

\* l.342-344: lastPoll = time.Now() iff the reply had no inputs and no
\* candidates; the result is the new time.Since(lastPoll)
LastPoll(hasIn, hasCand, el) == IF ~hasIn /\ ~hasCand THEN 0 ELSE el

\* a variant of l.336 that does not look at the candidates
FirstEmptyAnyReply(hasCand, at) == at = 0

\* l.336: the reply had no candidates and allTriaged is still 0
FirstEmpty(hasCand, at) == ~hasCand /\ at = 0

\* a variant of l.336-337 that scans at every reply without candidates
BaselineDueEvery(hasCand, at, leak) == ~hasCand /\ leak

\* l.337: the first reply without candidates runs the baseline scan
BaselineDue(hasCand, at, leak) == FirstEmpty(hasCand, at) /\ leak

\* l.336-344 when no baseline scan is due: store allTriaged if this is the
\* first reply without candidates, note lastPoll, next iteration
Triaged ==
  /\ pc = "triaged"
  /\ ~BaselineDue(rCandidates, allTriaged, flagLeak)
  /\ allTriaged' = IF FirstEmpty(rCandidates, allTriaged) THEN 1 ELSE allTriaged
  /\ since' = LastPoll(rInputs, rCandidates, since)
  /\ rInputs' = FALSE
  /\ rCandidates' = FALSE
  /\ pc' = "select"
  /\ UNCHANGED << seen, statVars, fatal, nBaseline, ret, configVars, noCover,
                  inp, corpusVars, signalVars, lockVars, needPoll, queue,
                  started, gateVars, scanBaseline, pollVars, tickPending >>

\* l.336-338: first reply without candidates, leak mode: kmemleakScan(false)
\* starts on the Pollster thread
BaselineStart ==
  /\ pc = "triaged"
  /\ BaselineDue(rCandidates, allTriaged, flagLeak)
  /\ scanBaseline' = TRUE
  /\ nBaseline' = IF nBaseline < 2 THEN nBaseline + 1 ELSE nBaseline
  /\ pc' = "baseline"
  /\ UNCHANGED << seen, statVars, fatal, ret, configVars, noCover,
                  replyVars, inp, corpusVars, signalVars, lockVars, allTriaged,
                  needPoll, queue, started, gateVars, pollVars, timeVars >>

\* l.338-344: kmemleakScan(false) returns; allTriaged is stored, lastPoll noted
BaselineDone ==
  /\ pc = "baseline"
  /\ scanBaseline' = FALSE
  /\ allTriaged' = 1
  /\ since' = LastPoll(rInputs, rCandidates, since)
  /\ rInputs' = FALSE
  /\ rCandidates' = FALSE
  /\ pc' = "select"
  /\ UNCHANGED << seen, statVars, fatal, nBaseline, ret, configVars, noCover,
                  inp, corpusVars, signalVars, lockVars, needPoll, queue,
                  started, gateVars, pollVars, tickPending >>

(* ------------------------------ time ---------------------------------- *)
\* the Pollster loop is running (the ticker of l.258 exists)
InLoop == started = NumProcs /\ pc \notin {"start_procs", "panic"}

\* l.258: one ticker period passes: a tick is buffered (a tick that finds
\* the channel full is dropped) and time.Since(lastPoll) grows, tracked up to
\* the first value above T_idle
Tick ==
  /\ InLoop
  /\ tickPending' = TRUE
  /\ since' = IF since + TickPeriod > T_idle THEN T_idle + 1
                                            ELSE since + TickPeriod
  /\ UNCHANGED << seen, statVars, fatal, nBaseline, pc, ret, configVars,
                  noCover, replyVars, inp, corpusVars, signalVars, lockVars,
                  allTriaged, needPoll, queue, started, gateVars, scanBaseline,
                  pollVars >>

(* ------------------- procs, work queue, gate (design) ----------------- *)
\* proc i runs and holds neither lock
ProcIdle(i) == Alive /\ i <= started /\ corpusMu # i /\ signalMu # i

\* WorkQueue.dequeue of a candidate: FIFO; pulses needPoll (one slot, a
\* pulse that finds it full is dropped) when the queue falls below the mark
ProcDequeue(i) ==
  /\ ProcIdle(i)
  /\ queue # << >>
  /\ queue' = Tail(queue)
  /\ needPoll' = IF Len(Tail(queue)) < NumProcs THEN 1 ELSE needPoll
  /\ UNCHANGED << seen, statVars, fatal, nBaseline, pc, ret, configVars,
                  noCover, replyVars, inp, corpusVars, signalVars, lockVars,
                  allTriaged, started, gateVars, scanBaseline, pollVars,
                  timeVars >>

\* Gate.enter: suspended while the gate is at its cap of 2*procs tickets or
\* in the barrier state
ProcEnter(i) ==
  /\ ProcIdle(i)
  /\ i \notin tickets
  /\ ~gateStop
  /\ Cardinality(tickets) < 2 * NumProcs
  /\ tickets' = tickets \cup {i}
  /\ UNCHANGED << seen, statVars, fatal, nBaseline, pc, ret, configVars,
                  noCover, replyVars, inp, corpusVars, signalVars, lockVars,
                  allTriaged, needPoll, queue, started, gateStop, scanReport,
                  scanBaseline, pollVars, timeVars >>

\* Gate.leave: the ticket comes back; once in a while (a count of completed
\* executions internal to the gate) the gate goes into its barrier state
ProcLeave(i) ==
  /\ ProcIdle(i)
  /\ i \in tickets
  /\ tickets' = tickets \ {i}
  /\ \E b \in BOOLEAN : gateStop' = (gateStop \/ b)
  /\ UNCHANGED << seen, statVars, fatal, nBaseline, pc, ret, configVars,
                  noCover, replyVars, inp, corpusVars, signalVars, lockVars,
                  allTriaged, needPoll, queue, started, scanReport,
                  scanBaseline, pollVars, timeVars >>

\* l.219-221: is a leak callback installed in the gate?
HasLeakCallback(leak) == leak

\* a variant of leakCallback without the test of l.214
CallbackScansAlways(at) == TRUE

\* l.213-218: leakCallback starts a scan iff allTriaged is set
CallbackScans(at) == at # 0

\* the barrier: every ticket is back, the gate calls leakCallback (l.213-221
\* and l.227); kmemleakScan(true) starts, or the barrier is released at once
GateCallback ==
  /\ Alive
  /\ gateStop
  /\ tickets = {}
  /\ ~scanReport
  /\ IF HasLeakCallback(flagLeak) /\ CallbackScans(allTriaged)
       THEN scanReport' = TRUE /\ UNCHANGED gateStop
       ELSE gateStop' = FALSE /\ UNCHANGED scanReport
  /\ UNCHANGED << seen, statVars, fatal, nBaseline, pc, ret, configVars,
                  noCover, replyVars, inp, corpusVars, signalVars, lockVars,
                  allTriaged, needPoll, queue, started, tickets, scanBaseline,
                  pollVars, timeVars >>

\* l.216: kmemleakScan(true) returns; the gate releases its waiters
GateScanDone ==
  /\ Alive
  /\ scanReport
  /\ scanReport' = FALSE
  /\ gateStop' = FALSE
  /\ UNCHANGED << seen, statVars, fatal, nBaseline, pc, ret, configVars,
                  noCover, replyVars, inp, corpusVars, signalVars, lockVars,
                  allTriaged, needPoll, queue, started, tickets, scanBaseline,
                  pollVars, timeVars >>

\* a proc counts an execution: atomic add of 1 to the counter of its
\* activity kind (counter values are explored up to MaxStat)
ProcStat(i) ==
  /\ ProcIdle(i)
  /\ stats < MaxStat
  /\ stats' = stats + 1
  /\ statOwed' = statOwed + 1
  /\ UNCHANGED << aStats, seen, fatal, nBaseline, pc, ret, configVars, noCover,
                  replyVars, inp, corpusVars, signalVars, lockVars,
                  allTriaged, needPoll, queue, started, gateVars,
                  scanBaseline, pollVars, timeVars >>

\* a proc whose triage succeeded takes corpusMu to add the program
ProcLockCorpus(i) ==
  /\ ProcIdle(i)
  /\ ~noCover
  /\ corpusMu = Free
  /\ corpusMu' = i
  /\ UNCHANGED << seen, statVars, fatal, nBaseline, pc, ret, configVars,
                  noCover, replyVars, inp, corpusVars, signalVars, signalMu,
                  allTriaged, needPoll, queue, started, gateVars, scanBaseline,
                  pollVars, timeVars >>

\* the proc adds the program unless its hash is known, and unlocks
ProcAddCorpus(i) ==
  /\ Alive
  /\ corpusMu = i
  /\ \E b \in 1..MaxProg :
       /\ corpus' = IF Hash(b) \notin corpusHashes
                      THEN Append(corpus, Deserialize(b)) ELSE corpus
       /\ corpusHashes' = corpusHashes \cup {Hash(b)}
  /\ corpusMu' = Free
  /\ UNCHANGED << seen, statVars, fatal, nBaseline, pc, ret, configVars,
                  noCover, replyVars, inp, signalVars, signalMu, allTriaged,
                  needPoll, queue, started, gateVars, scanBaseline, pollVars,
                  timeVars >>

\* a proc takes signalMu to publish the stable signal of a triaged program
ProcLockSignal(i) ==
  /\ ProcIdle(i)
  /\ ~noCover
  /\ signalMu = Free
  /\ signalMu' = i
  /\ UNCHANGED << seen, statVars, fatal, nBaseline, pc, ret, configVars,
                  noCover, replyVars, inp, corpusVars, signalVars, corpusMu,
                  allTriaged, needPoll, queue, started, gateVars, scanBaseline,
                  pollVars, timeVars >>

\* the proc extends max, corpus and new signal by the tokens max lacks, and
\* unlocks
ProcPublish(i) ==
  /\ Alive
  /\ signalMu = i
  /\ \E sig \in SUBSET Tokens :
       LET diff == SignalDiff(maxSignal, sig) IN
         /\ maxSignal' = SignalAdd(maxSignal, diff)
         /\ corpusSignal' = SignalAdd(corpusSignal, diff)
         /\ newSignal' = SignalAdd(newSignal, diff)
         /\ published' = published \cup diff
  /\ signalMu' = Free
  /\ UNCHANGED << seen, statVars, fatal, nBaseline, pc, ret, configVars,
                  noCover, replyVars, inp, corpusVars, corpusMu, allTriaged,
                  needPoll, queue, started, gateVars, scanBaseline, pollVars,
                  timeVars >>

(* --------------------------- specification ---------------------------- *)
\* the main thread: bootstrap, then the Pollster loop
Bootstrap ==
  \/ ConnectOk
  \/ ConnectErr
  \/ SeedInputsNext
  \/ SeedInputsEnd
  \/ SeedMaxSignal
  \/ Config
  \/ CheckSkip
  \/ CheckOk
  \/ CheckErr
  \/ ReconnectOk
  \/ ReconnectErr
  \/ SeedCandidatesNext
  \/ SeedAppend
  \/ SeedCandidatesEnd
  \/ StartProc
  \/ EnterLoop

AddInput ==
  \/ AddInputLockSignal
  \/ AddInputBody

Pollster ==
  \/ SelectTick
  \/ SelectPulse
  \/ Decide
  \/ DrainLock
  \/ DrainCopy
  \/ DrainReset
  \/ PollOk
  \/ PollErr
  \/ AbsorbNone
  \/ AbsorbLock
  \/ AbsorbBody
  \/ PollInputsNext
  \/ PollInputsEnd
  \/ PollCandidatesNext
  \/ PollAppend
  \/ PollCandidatesEnd
  \/ Triaged
  \/ BaselineStart
  \/ BaselineDone

MainThread == Bootstrap \/ AddInput \/ Pollster

ProcQueue == \E i \in Procs : ProcDequeue(i)

ProcData ==
  \/ \E i \in Procs : ProcLockCorpus(i)
  \/ \E i \in Procs : ProcAddCorpus(i)
  \/ \E i \in Procs : ProcLockSignal(i)
  \/ \E i \in Procs : ProcPublish(i)

Gate ==
  \/ \E i \in Procs : ProcEnter(i)
  \/ \E i \in Procs : ProcLeave(i)
  \/ GateCallback
  \/ GateScanDone

ProcStats == \E i \in Procs : ProcStat(i)

Next == MainThread \/ Tick \/ ProcQueue \/ ProcData \/ Gate \/ ProcStats

\* the whole worker
Spec == Init /\ [][Next]_vars

\* The gate writes only tickets, gateStop and scanReport, which no other
\* component reads; the procs' corpus and signal updates change neither the
\* control flow of the main thread nor the gate.  Claims about one of the
\* two are therefore checked on the worker without the other:
\* the worker without the gate
NextData == MainThread \/ Tick \/ ProcQueue \/ ProcData
SpecData == Init /\ [][NextData]_vars

\* the worker without the procs' corpus and signal updates
NextGate == MainThread \/ Tick \/ ProcQueue \/ Gate
SpecGate == Init /\ [][NextGate]_vars

\* the worker with neither
NextPoll == MainThread \/ Tick \/ ProcQueue
SpecPoll == Init /\ [][NextPoll]_vars

\* a reply is a finite list: each loop over r.Inputs, r.NewInputs and
\* r.Candidates comes to its end
RepliesEnd ==
  /\ SF_vars(SeedInputsEnd)
  /\ SF_vars(SeedCandidatesEnd)
  /\ SF_vars(PollInputsEnd)
  /\ SF_vars(PollCandidatesEnd)

\* SpecPoll with the scheduling the runtime gives: the main goroutine runs
\* whenever it can (an RPC returns, with a reply or an error; a scan
\* returns) and the ticker of l.258 keeps firing.  Nothing is assumed of the
\* procs' dequeues.
SpecLive == SpecPoll /\ WF_vars(MainThread) /\ WF_vars(Tick) /\ RepliesEnd

\* the worker with neither, and the procs' statistics counting
NextStats == MainThread \/ Tick \/ ProcQueue \/ ProcStats
SpecStats == Init /\ [][NextStats]_vars

(* ============================== claims ================================ *)

\* C1: over every run of addInput (Connect seeds, Poll inputs) and of the
\* absorb of a returned max signal, maxSignal never loses a token from one
\* state to the next, and corpusSignal is a subset of maxSignal in every
\* reachable state.
C1_SignalMonotone ==
  /\ corpusSignal \subseteq maxSignal
  /\ [][ /\ maxSignal \subseteq maxSignal'
         /\ corpusSignal' \subseteq maxSignal' ]_vars

\* a Poll has absorbed a max signal and then run addInput, whose input gave
\* corpusSignal its tokens
C1_Witness ==
  /\ pc = "inputs"
  /\ rInputs
  /\ corpusSignal # {}
  /\ maxSignal # {}

\* the hashes of the corpus entries, in order
CorpusHashSeq == [k \in 1..Len(corpus) |-> ProgHash(corpus[k])]

\* an addInput call is at its body and will not panic
AddInputRuns == pc = "addInput_body" /\ ~AddInputPanics(noCover, inp)

\* the step is a step of the main thread that leaves its statement
MainStep == pc' # pc

\* C2 as stated: in every state in which addInput is called, two calls with
\* the same bytes grow the corpus by exactly one entry: the first appends the
\* program and records its hash, the second changes neither.
C2_Original ==
  AddInputRuns =>
    LET c1 == AddInputCorpus(corpus, corpusHashes, inp)
        h1 == AddInputHashes(corpusHashes, inp)
        c2 == AddInputCorpus(c1, h1, inp)
        h2 == AddInputHashes(h1, inp)
    IN  /\ Len(c2) = Len(corpus) + 1
        /\ c1 = Append(corpus, Deserialize(inp.Prog))
        /\ h1 = corpusHashes \cup {Hash(inp.Prog)}
        /\ c2 = c1
        /\ h2 = h1

\* C2: an addInput call that does not panic appends the program and
\* records its hash exactly when the hash is not yet in the hash set, and
\* changes neither corpus nor hash set when it is.  Two calls with the same
\* bytes therefore grow the corpus by one entry when the hash was not known
\* before the first and by none when it was: the second call, made right
\* after or later, always finds the hash (the hash set never loses one) and
\* changes nothing.
C2_Dedup ==
  [][ /\ corpusHashes \subseteq corpusHashes'
      /\ (AddInputRuns /\ MainStep) =>
           LET known == Hash(inp.Prog) \in corpusHashes IN
             /\ known => corpus' = corpus /\ corpusHashes' = corpusHashes
             /\ ~known => /\ corpus' = Append(corpus, Deserialize(inp.Prog))
                          /\ corpusHashes' = corpusHashes \cup {Hash(inp.Prog)}
             /\ inp.Prog \in seen => known
             /\ AddInputCorpus(corpus', corpusHashes', inp) = corpus'
             /\ AddInputHashes(corpusHashes', inp) = corpusHashes' ]_vars

\* addInput runs, during a Poll, on bytes it has run on before
C2_Witness ==
  /\ AddInputRuns
  /\ ret = "poll"
  /\ inp.Prog \in seen
  /\ Hash(inp.Prog) \in corpusHashes
  /\ Len(corpus) >= 1

\* C3 as stated: addInput of an input whose hash is in the hash set raises
\* no error and leaves corpus, hash set, corpusSignal, maxSignal and newSignal
\* unchanged, whatever its signal.
C3_Original ==
  [][ (pc = "addInput_body" /\ MainStep /\ Hash(inp.Prog) \in corpusHashes) =>
        /\ pc' # "panic"
        /\ UNCHANGED << corpus, corpusHashes, corpusSignal, maxSignal,
                        newSignal >> ]_vars

\* C3: with coverage enabled, addInput of an input whose hash is in the
\* hash set raises no error and leaves corpus, hash set and newSignal
\* unchanged; maxSignal and corpusSignal gain exactly the tokens of the
\* input's signal that maxSignal lacked.
C3_DuplicateAdd ==
  [][ ( /\ pc = "addInput_body"
        /\ MainStep
        /\ Hash(inp.Prog) \in corpusHashes
        /\ ~noCover ) =>
        /\ pc' # "panic"
        /\ UNCHANGED << corpus, corpusHashes, newSignal >>
        /\ maxSignal' = maxSignal \cup inp.Signal
        /\ corpusSignal' = corpusSignal \cup (inp.Signal \ maxSignal) ]_vars

\* addInput runs on a duplicate whose signal has a token maxSignal lacks
C3_Witness ==
  /\ pc = "addInput_body"
  /\ ~noCover
  /\ Hash(inp.Prog) \in corpusHashes
  /\ inp.Signal \ maxSignal # {}

\* C4: in every reachable state no two corpus entries have the same
\* content hash and the hash of every corpus entry is in the hash set,
\* whichever path added the entries (addInput, or the direct append of
\* candidates when coverage is disabled).
C4_NoDuplicates ==
  /\ \A j, k \in 1..Len(corpus) : j # k => CorpusHashSeq[j] # CorpusHashSeq[k]
  /\ \A k \in 1..Len(corpus) : CorpusHashSeq[k] \in corpusHashes

\* the tokens of newSignal that no payload carries yet
Unreported ==
  IF pc = "drain_reset" THEN newSignal \ aMaxSignal ELSE newSignal

C6_Original ==
  [][ (pc = "decide" /\ MainStep /\ poll) => pc' = "drain" ]_vars

\* C6: a wake caused by the needPoll pulse sends a Poll exactly when
\* wantCandidates() is true at that wake, whatever the time since the last
\* poll; with wantCandidates() false the wake is skipped.
C6_PulsePolls ==
  [][ (pc = "decide" /\ MainStep /\ poll) =>
        pc' = IF wantCandidates THEN "drain" ELSE "select" ]_vars

\* a pulse wake with wantCandidates() true, inside the rate limit
C6_Witness ==
  /\ pc = "decide"
  /\ poll
  /\ wantCandidates
  /\ since <= T_idle

\* C7 as stated: every wake (tick or pulse) at which wantCandidates() is
\* true sends a Poll, even inside the rate limit.
C7_Original ==
  [][ (pc = "decide" /\ MainStep /\ wantCandidates) => pc' = "drain" ]_vars

\* C7: a wake at which wantCandidates() is true sends a Poll exactly when
\* it was caused by the pulse or more than T_idle has passed since the last
\* recorded poll timestamp; a tick inside the rate limit sends none.
C7_WantPolls ==
  [][ (pc = "decide" /\ MainStep /\ wantCandidates) =>
        pc' = IF poll \/ since > T_idle THEN "drain" ELSE "select" ]_vars

\* a tick wake with wantCandidates() true, inside the rate limit
C7_Witness ==
  /\ pc = "decide"
  /\ ~poll
  /\ wantCandidates
  /\ since <= T_idle

\* C8: allTriaged is 0 at start-up; it goes from 0 to 1 only as the last
\* step of a Poll whose reply had no candidates, and every such Poll sets it
\* (no step of the bootstrap does); once 1 it stays 1.
C8_Latch ==
  /\ allTriaged = 0
  /\ [][ /\ allTriaged = 1 => allTriaged' = 1
         /\ allTriaged' # allTriaged =>
              /\ pc \in {"triaged", "baseline"}
              /\ ~rCandidates
              /\ pc' = "select"
         /\ (pc = "triaged" /\ ~rCandidates /\ pc' = "select") =>
              allTriaged' = 1
         /\ (pc = "baseline" /\ MainStep) => allTriaged' = 1 ]_vars

\* allTriaged is set and a later Poll, whose reply has candidates, ends
C8_Witness ==
  /\ allTriaged = 1
  /\ pc = "triaged"
  /\ rCandidates

\* C9 as stated: during any leak scan, the gate's or the Pollster's
\* baseline scan, no execution ticket is active.
C9_Original ==
  (scanReport \/ scanBaseline) => tickets = {}

\* C9: during a leak scan run by the gate's leak callback, which scans
\* only once allTriaged is set, no execution ticket is active and the gate
\* is in its barrier state; the baseline scan of the Pollster, which ends
\* before allTriaged is set, is not covered.
C9_GateBarrier ==
  /\ scanReport => (tickets = {} /\ gateStop /\ allTriaged = 1)
  /\ scanBaseline => (pc = "baseline" /\ allTriaged = 0)

\* the gate's leak callback is scanning
C9_Witness ==
  /\ scanReport
  /\ allTriaged = 1
  /\ started = NumProcs

\* C10: the main thread holds corpusMu and signalMu together only in
\* the body of addInput, having taken corpusMu first; the drain, the absorb
\* and the direct append hold one lock; no proc holds both; a proc that
\* holds a lock can finish its critical section, and so can the main thread
\* unless it waits, in addInput, for signalMu held by a proc.
C10_LockOrder ==
  /\ corpusMu = Main =>
       pc \in {"addInput_signalMu", "addInput_body", "seed_append", "append"}
  /\ signalMu = Main =>
       pc \in {"addInput_body", "drain_copy", "drain_reset", "absorb_body"}
  /\ (corpusMu = Main /\ signalMu = Main) => pc = "addInput_body"
  /\ \A i \in Procs : ~(corpusMu = i /\ signalMu = i)
  /\ (Alive /\ corpusMu \in Procs) => ENABLED ProcAddCorpus(corpusMu)
  /\ (Alive /\ signalMu \in Procs) => ENABLED ProcPublish(signalMu)
  /\ signalMu = Main => ENABLED MainThread
  /\ (corpusMu = Main /\ pc # "addInput_signalMu") => ENABLED MainThread

\* addInput, called by the Pollster, holds both locks
C10_Witness ==
  /\ pc = "addInput_body"
  /\ ret = "poll"
  /\ corpusMu = Main
  /\ signalMu = Main

\* C11: for an activity counter, the poll swaps it to zero in one
\* step and puts the swapped value in the payload, so that in every state
\* the increments no payload carries yet are exactly the counter's current
\* value: the values reported plus the current value equal the increments.
C11_StatsConserved ==
  /\ [](stats = statOwed)
  /\ [][ (pc = "drain_reset" /\ MainStep) => (aStats' = stats /\ stats' = 0) ]_vars

\* the payload about to be sent carries an increment, and a proc has counted
\* another execution since the swap
C11_Witness ==
  /\ pc = "call"
  /\ aStats > 0
  /\ stats > 0
  /\ statOwed = stats

\* the bootstrap step statement p belongs to (r: where addInput returns
\* to): Connect 0, seed inputs 1, seed max signal 2, config 3, Check 4,
\* reconnect 5, Connect candidates 6, start of the procs 7, Pollster loop 8
BootRank(p, r) ==
  CASE p = "connect" -> 0
    [] p = "seed_inputs" -> 1
    [] p \in {"addInput_signalMu", "addInput_body"} ->
         IF r = "boot" THEN 1 ELSE 8
    [] p = "seed_max" -> 2
    [] p = "config" -> 3
    [] p = "check" -> 4
    [] p = "reconnect" -> 5
    [] p \in {"seed_candidates", "seed_append"} -> 6
    [] p = "start_procs" -> 7
    [] OTHER -> 8

\* C12: the bootstrap steps run in their order, none skipped and none
\* repeated; a proc is started only in the step after the Connect
\* candidates, when the seed inputs and max signal are absorbed, the Check
\* RPC (which can fail only if need_check was true) is done and the manager
\* is reconnected; the Pollster loop runs only with all procs started.
C12_BootOrder ==
  /\ []( /\ (Alive /\ BootRank(pc, ret) = 8) => started = NumProcs
         /\ (Alive /\ BootRank(pc, ret) < 7) => started = 0
         /\ started > 0 => (~needCheck /\ noCover = NoCoverOf(flagSignal)) )
  /\ [][ /\ started' # started =>
              (pc = "start_procs" /\ pc' = pc /\ started' = started + 1)
         /\ (Alive /\ pc' # "panic") =>
              \/ BootRank(pc', ret') = BootRank(pc, ret)
              \/ BootRank(pc', ret') = BootRank(pc, ret) + 1
         /\ (pc = "check" /\ pc' = "panic") => needCheck
         /\ (pc = "seed_candidates" /\ pc' = "start_procs") =>
              UNCHANGED << queue, corpus >> ]_vars

\* all procs are started, after a seed input went to the corpus and a
\* Connect candidate to the work queue
C12_Witness ==
  /\ pc = "start_procs"
  /\ started = NumProcs
  /\ corpus # << >>
  /\ queue # << >>

\* C13: whenever the executor configuration has coverage disabled (no
\* FlagSignal), a call of addInput, for a Connect seed input as for a Poll
\* input, ends the worker and adds nothing to the corpus, the hash set or
\* the signal sets.
C13_NoCoverFatal ==
  [][ (pc = "addInput_body" /\ MainStep /\ ~flagSignal) =>
        /\ pc' = "panic"
        /\ UNCHANGED << corpus, corpusHashes, corpusSignal, maxSignal,
                        newSignal >> ]_vars

\* the RPCs of the worker, and the statement each is called at
RpcAt ==
  [Connect |-> "connect", Check |-> "check", Reconnect |-> "reconnect",
   Poll |-> "call"]

\* C14: a failure of Connect, Check, the reconnect or a Poll ends the
\* worker at once: the failing step changes nothing else, and no thread of
\* the worker takes any step afterwards (no absorb, no enqueue, no change of
\* allTriaged, no retry, no later poll).
C14_RpcFatal ==
  /\ [](fatal # "" <=> pc = "panic")
  /\ [][ /\ fatal = ""
         /\ \A rpc \in DOMAIN RpcAt :
              fatal' = rpc =>
                /\ pc = RpcAt[rpc]
                /\ UNCHANGED << corpus, corpusHashes, corpusSignal,
                                maxSignal, newSignal, allTriaged, queue,
                                since, started, needPoll >> ]_vars

\* a Poll failed while procs ran and candidates waited in the work queue
C14_Witness ==
  /\ fatal = "Poll"
  /\ pc = "panic"
  /\ started = NumProcs
  /\ queue # << >>

\* C15: after addInput has added the input's program to the corpus, or
\* found it there, every token of the input's signal is in corpusSignal,
\* also when the token was in maxSignal before the call (absorbed from the
\* max signal of the same Poll result).
C15_CorpusSignalUnion ==
  [][ (AddInputRuns /\ MainStep) => inp.Signal \subseteq corpusSignal' ]_vars

\* C16: the time since the recorded poll timestamp restarts exactly at
\* the end of a Poll whose result had no inputs and no candidates and is
\* left alone by every other Poll; it otherwise only grows, with time; a
\* tick wake sends a Poll exactly when it is above T_idle.
C16_RateLimit ==
  [][ /\ (pc \in {"triaged", "baseline"} /\ pc' = "select") =>
           since' = IF ~rInputs /\ ~rCandidates THEN 0 ELSE since
      /\ since' < since =>
           /\ pc \in {"triaged", "baseline"}
           /\ pc' = "select"
           /\ ~rInputs /\ ~rCandidates
      /\ since' > since => UNCHANGED pc
      /\ (pc = "decide" /\ MainStep /\ ~poll) =>
           pc' = IF since > T_idle THEN "drain" ELSE "select" ]_vars

\* a tick wake two ticker periods after a Poll with an empty result
C16_Witness ==
  /\ pc = "decide"
  /\ ~poll
  /\ since = 2 * TickPeriod
  /\ allTriaged = 1

\* C17: in leak mode kmemleakScan(false) is called at most once, by the
\* first Poll whose reply has no candidates, and allTriaged is set when it
\* has returned; the gate's callback scans only with allTriaged set, hence
\* after the baseline scan; without leak mode nothing scans.
C17_BaselineOnce ==
  /\ []( /\ nBaseline <= 1
         /\ flagLeak => (nBaseline = 1 <=> (scanBaseline \/ allTriaged = 1))
         /\ scanBaseline => (pc = "baseline" /\ allTriaged = 0)
         /\ scanReport => (nBaseline = 1 /\ ~scanBaseline /\ allTriaged = 1)
         /\ ~flagLeak => (nBaseline = 0 /\ ~scanBaseline /\ ~scanReport) )
  /\ [][ nBaseline' # nBaseline =>
           (pc = "triaged" /\ ~rCandidates /\ allTriaged = 0 /\ flagLeak)
       ]_vars

\* the gate's callback scans, after the one baseline scan, while a later
\* Poll is at its end
C17_Witness ==
  /\ scanReport
  /\ nBaseline = 1
  /\ pc = "triaged"
  /\ ~rCandidates

\* the statements of the two candidate loops
CandidateLoops == {"seed_candidates", "candidates"}
CandidateAppends == {"seed_append", "append"}

\* C18: a candidate of the Connect or Poll reply that deserializes goes
\* to exactly one place: with coverage enabled it is enqueued, with its
\* minimized flag, and the main thread leaves the corpus alone; with
\* coverage disabled it is appended to the corpus and the work queue never
\* gets a candidate.  (One that does not deserialize ends the worker.)
C18_Routing ==
  /\ []( /\ noCover => queue = << >>
         /\ pc \in CandidateLoops \cup CandidateAppends =>
              noCover = NoCoverOf(flagSignal)
         /\ pc \in CandidateAppends => noCover )
  /\ [][ /\ Len(queue') > Len(queue) =>
              /\ pc \in CandidateLoops
              /\ ~noCover
              /\ UNCHANGED corpus
              /\ \E c \in Candidates :
                   /\ DeserializeOk(c.Prog)
                   /\ queue' = Append(queue, [p |-> Deserialize(c.Prog),
                                               minimized |-> c.Minimized])
         /\ (pc \in CandidateLoops /\ ~noCover) =>
              (UNCHANGED corpus /\ pc' \notin CandidateAppends)
         /\ (pc \in CandidateLoops /\ noCover /\ MainStep) =>
              pc' \in CandidateAppends \cup {"panic", "start_procs", "triaged"}
         /\ (pc \in CandidateAppends /\ MainStep) =>
              /\ corpus' = Append(corpus, Deserialize(inp.Prog))
              /\ UNCHANGED queue ]_vars

\* coverage is disabled and a candidate of a Poll reply has been appended
\* to the corpus
C18_Witness ==
  /\ pc = "candidates"
  /\ rCandidates
  /\ noCover
  /\ corpus # << >>
  /\ queue = << >>

\* C19: with the ticker firing and every Poll answered, whenever the
\* Pollster waits for a wake a Poll is eventually sent, whatever the procs
\* dequeue and whether pulses are skipped or not; so Polls are sent
\* infinitely often as long as no fatal error ends the worker (a failed RPC,
\* or a reply the worker cannot absorb); and a Poll reply without
\* candidates leads to allTriaged being set.
C19_PollsForever ==
  /\ (pc = "select") ~> (pc = "call")
  /\ ([]<>(pc = "call")) \/ <>(pc = "panic")
  /\ (pc = "triaged" /\ ~rCandidates) ~> (allTriaged = 1)

\* a pulse wake that is about to be skipped, after earlier Polls
C19_Witness ==
  /\ pc = "decide"
  /\ poll
  /\ ~wantCandidates
  /\ allTriaged = 1

====
